---- MODULE Spec2Model ----
(***************************************************************************)
(* State-machine model of the button, slider and toggle-button code of the *)
(* sun widget library.  Each widget is a record of its model fields; each  *)
(* operation is the Property.set that starts it followed by every listener *)
(* the source links to that Property, run to completion (the library is    *)
(* single threaded and listeners run synchronously inside set()).          *)
(***************************************************************************)
EXTENDS Integers, Sequences, FiniteSets, TLC

VARIABLES
  sticky,    \* StickyToggleButtonModel: over, down, enabled, value, pressedWhileDown
  gesture,   \* observation of the current / last downProperty cycle of the sticky model
  options,   \* PushButtonModel options: fireOnDown, fireOnHold
  push,      \* PushButtonModel: over, down, enabled, listeners, timer
  last,      \* observation of the last PushButtonModel operation
  view,      \* a rectangular push button: model tuple, interaction state, paints
  shot,      \* the view as it was at some earlier moment of the run, or NoShot
  slider,    \* Slider: its Properties, observers, thumb drag and disposal
  buttons,   \* one toggle button of each class: listeners, sounds and disposal
  config,    \* a widget constructor call: its options and what came of it
  toggle2,   \* experimental ToggleButtonModel and the observation of its press cycle
  sim,       \* the sim the dialogs belong to: popups, accessible views, focus
  dialogs,   \* the Dialog instances of the sim
  combo      \* ComboBox: list box, button, enabled and display-only Properties

vars == <<sticky, gesture, options, push, last, view, shot, slider, buttons,
          config, toggle2, sim, dialogs, combo>>
stickyVars == <<sticky, gesture>>
pushVars == <<options, push, last>>
viewVars == <<view, shot>>
widgetVars == <<slider, buttons>>
dialogVars == <<sim, dialogs>>
moreVars == <<config, toggle2, dialogVars, combo>>

(***************************************************************************)
(* StickyToggleButtonModel (src/js/buttons/RectangularButton.js 663-793)   *)
(***************************************************************************)

valueUp == "valueUp"
valueDown == "valueDown"

RECURSIVE StickySetValue(_, _)
RECURSIVE StickySetDownProperty(_, _)

\* toggleListener: flips valueProperty between valueUp and valueDown.  The
\* write notifies valuePropertyListener (StickySetValue).  nToggles counts the
\* toggledEmitter emissions of the running operation.
toggleListener(m) ==
  StickySetValue([m EXCEPT !.nToggles = @ + 1],
                 IF m.value = valueUp THEN valueDown ELSE valueUp)

\* toggle(): toggledEmitter.emit(), whose only listener is toggleListener.
toggle(m) == toggleListener(m)

\* downListener with the press branch forgetting to clear pressedWhileDown.
downListenerKeepsFlag(m, down) ==
  LET m1 == IF m.enabled /\ m.over /\ down /\ m.value = valueUp
            THEN toggle(m)
            ELSE m
      m2 == IF m1.enabled /\ m1.over /\ ~down /\ m1.value = valueDown
            THEN IF m1.pressedWhileDown
                 THEN toggle(m1)
                 ELSE [m1 EXCEPT !.pressedWhileDown = TRUE]
            ELSE m1
  IN  IF ~down /\ ~m2.over
      THEN [m2 EXCEPT !.pressedWhileDown = TRUE]
      ELSE m2

\* downListener without the clause for a pointer that moved out before the
\* release.
downListenerForgetsOut(m, down) ==
  LET m1 == IF m.enabled /\ m.over /\ down /\ m.value = valueUp
            THEN [toggle(m) EXCEPT !.pressedWhileDown = FALSE]
            ELSE m
  IN  IF m1.enabled /\ m1.over /\ ~down /\ m1.value = valueDown
      THEN IF m1.pressedWhileDown
           THEN toggle(m1)
           ELSE [m1 EXCEPT !.pressedWhileDown = TRUE]
      ELSE m1

\* downListener without the test of enabledProperty and overProperty.
downListenerUnguarded(m, down) ==
  LET m1 == IF down /\ m.value = valueUp
            THEN [toggle(m) EXCEPT !.pressedWhileDown = FALSE]
            ELSE m
      m2 == IF ~down /\ m1.value = valueDown
            THEN IF m1.pressedWhileDown
                 THEN toggle(m1)
                 ELSE [m1 EXCEPT !.pressedWhileDown = TRUE]
            ELSE m1
  IN  IF ~down /\ ~m2.over
      THEN [m2 EXCEPT !.pressedWhileDown = TRUE]
      ELSE m2

\* downListener: linked to downProperty.
downListener(m, down) ==
  LET m1 == IF m.enabled /\ m.over /\ down /\ m.value = valueUp
            THEN [toggle(m) EXCEPT !.pressedWhileDown = FALSE]
            ELSE m
      m2 == IF m1.enabled /\ m1.over /\ ~down /\ m1.value = valueDown
            THEN IF m1.pressedWhileDown
                 THEN toggle(m1)
                 ELSE [m1 EXCEPT !.pressedWhileDown = TRUE]
            ELSE m1
  IN  IF ~down /\ ~m2.over
      THEN [m2 EXCEPT !.pressedWhileDown = TRUE]
      ELSE m2

\* downProperty.set(down): listeners run only when the value changes.
StickySetDownProperty(m, down) ==
  IF m.down = down THEN m ELSE downListener([m EXCEPT !.down = down], down)

\* valuePropertyListener: keeps downProperty in sync with valueProperty.
valuePropertyListener(m, value) == StickySetDownProperty(m, value = valueDown)

\* valueProperty.set(value): listeners run only when the value changes.
StickySetValue(m, value) ==
  IF m.value = value THEN m ELSE valuePropertyListener([m EXCEPT !.value = value], value)

\* enabledPropertyOnListener: makes the button ready to toggle when enabled.
enabledPropertyOnListener(m, enabled) ==
  IF enabled THEN [m EXCEPT !.pressedWhileDown = TRUE] ELSE m

\* The state after the constructor: over = down = FALSE, the three link()
\* calls have each run their listener once with the initial value.
StickyConstructed(value, enabled) ==
  LET m0 == [over |-> FALSE, down |-> FALSE, enabled |-> enabled, value |-> value,
             pressedWhileDown |-> FALSE, nToggles |-> 0]
      m1 == downListener(m0, FALSE)
      m2 == valuePropertyListener(m1, m1.value)
      m3 == enabledPropertyOnListener(m2, m2.enabled)
  IN  [m3 EXCEPT !.nToggles = 0]

(* Observation of downProperty cycles.  A cycle starts when downProperty goes
   false -> true and ends when it goes back to false.
     phase       "none" before the first cycle, "pressed" inside one, "released" after
     startValue  valueProperty when the cycle started
     endValue    valueProperty when the cycle ended
     clean       the cycle was started by the pointer with enabled and over true,
                 and neither went false, nor was valueProperty written from
                 outside, during it
     rearmed     enabledProperty went false -> true during the cycle
     external    valueProperty was written from outside during the cycle
     toggles     toggle() calls during the cycle
     atPress / atRelease   toggle() calls made by the press / by the release
     follows     the cycle directly follows a clean cycle that began at valueUp,
                 with no outside write of valueProperty in between
     quiet       no outside write of valueProperty since the last cycle ended
     afterOut    the cycle before this one ended with the pointer not over the button
     op          the operation that ran last ("none" after construction)
     before      over, down, enabled and valueProperty as that operation found them *)
GestureInit ==
  [phase |-> "none", startValue |-> valueUp, endValue |-> valueUp, clean |-> FALSE,
   rearmed |-> FALSE, external |-> FALSE, toggles |-> 0, atPress |-> 0,
   atRelease |-> 0, follows |-> FALSE, quiet |-> TRUE, overAtRelease |-> FALSE,
   enabledAtRelease |-> FALSE, afterOut |-> FALSE, op |-> "none",
   before |-> [over |-> FALSE, down |-> FALSE, enabled |-> FALSE, value |-> valueUp]]

\* The cycle observation, before the last operation is recorded in it.
ObserveCycles(g, m, n, op) ==
  LET starts == ~m.down /\ n.down
      ends == m.down /\ ~n.down
      ext == op = "setValue" /\ m.value # n.value
  IN  IF starts
      THEN [phase |-> "pressed", startValue |-> m.value, endValue |-> m.value,
            clean |-> op = "setDown" /\ m.enabled /\ m.over,
            rearmed |-> FALSE, external |-> ext,
            toggles |-> n.nToggles, atPress |-> n.nToggles, atRelease |-> 0,
            follows |-> g.phase = "released" /\ g.clean /\ g.startValue = valueUp /\ g.quiet,
            quiet |-> TRUE, overAtRelease |-> FALSE, enabledAtRelease |-> FALSE,
            afterOut |-> g.phase = "released" /\ ~g.overAtRelease,
            op |-> g.op, before |-> g.before]
      ELSE IF ends
      THEN [g EXCEPT !.phase = "released", !.endValue = n.value,
                     !.clean = @ /\ op = "setDown",
                     !.external = @ \/ ext,
                     !.toggles = @ + n.nToggles, !.atRelease = n.nToggles,
                     !.overAtRelease = m.over, !.enabledAtRelease = m.enabled]
      ELSE IF g.phase = "pressed"
      THEN [g EXCEPT !.clean = @ /\ n.over /\ n.enabled /\ ~ext,
                     !.rearmed = @ \/ (~m.enabled /\ n.enabled),
                     !.external = @ \/ ext,
                     !.toggles = @ + n.nToggles]
      ELSE [g EXCEPT !.quiet = @ /\ ~ext]

Observe(g, m, n, op) ==
  [ObserveCycles(g, m, n, op) EXCEPT
     !.op = op,
     !.before = [over |-> m.over, down |-> m.down, enabled |-> m.enabled,
                 value |-> m.value]]

StickyInit ==
  /\ \E v \in {valueUp, valueDown}, e \in BOOLEAN : sticky = StickyConstructed(v, e)
  /\ gesture = GestureInit

\* The sticky button of a run that exercises another widget: built up and enabled.
StickyDefault ==
  /\ sticky = StickyConstructed(valueUp, TRUE)
  /\ gesture = GestureInit

StickyStep(n, op) ==
  /\ sticky' = n
  /\ gesture' = Observe(gesture, sticky, n, op)
  /\ UNCHANGED <<pushVars, viewVars, widgetVars, moreVars>>

\* overProperty.set(over): the sticky model links no listener to overProperty.
StickySetOver(over) ==
  /\ over \in BOOLEAN
  /\ StickyStep([sticky EXCEPT !.over = over, !.nToggles = 0], "setOver")

\* downProperty.set(down) by the press listener of the view.
StickySetDown(down) ==
  /\ down \in BOOLEAN
  /\ StickyStep(StickySetDownProperty([sticky EXCEPT !.nToggles = 0], down), "setDown")

\* enabledProperty.set(enabled).
StickySetEnabled(enabled) ==
  /\ enabled \in BOOLEAN
  /\ StickyStep(IF sticky.enabled = enabled
                THEN [sticky EXCEPT !.nToggles = 0]
                ELSE enabledPropertyOnListener([sticky EXCEPT !.enabled = enabled, !.nToggles = 0],
                                               enabled),
                "setEnabled")

\* valueProperty.set(value) from outside the button.
StickyWriteValue(value) ==
  /\ value \in {valueUp, valueDown}
  /\ StickyStep(StickySetValue([sticky EXCEPT !.nToggles = 0], value), "setValue")

StickyNext ==
  \/ \E b \in BOOLEAN : StickySetOver(b)
  \/ \E b \in BOOLEAN : StickySetDown(b)
  \/ \E b \in BOOLEAN : StickySetEnabled(b)
  \/ \E v \in {valueUp, valueDown} : StickyWriteValue(v)

(***************************************************************************)
(* PushButtonModel (src/js/buttons/RoundToggleButton.js 169-315)           *)
(***************************************************************************)

\* The listeners a client can register.  "off" is a listener that disables
\* the button it is registered on (button.enabled = false); "a" and "b" do
\* not touch the button.
Listeners == {"a", "b", "off"}

NoListener == "null"

\* CallbackTimer.stop( false ): clears the pending timeout / interval.
TimerStopNoFire(m) == [m EXCEPT !.timer.running = FALSE]

\* The enabledProperty listener: stops the timer when the button is disabled.
PushEnabledListener(m, enabled) ==
  IF ~enabled /\ m.timer.exists THEN TimerStopNoFire(m) ELSE m

\* enabledProperty.set(enabled): listeners run only when the value changes.
PushSetEnabledProperty(m, enabled) ==
  IF m.enabled = enabled THEN m
  ELSE PushEnabledListener([m EXCEPT !.enabled = enabled], enabled)

\* One listener() call made by fire().
CallListener(m, l) ==
  LET m1 == [m EXCEPT !.calls = Append(@, l)]
  IN  IF l = "off" THEN PushSetEnabledProperty(m1, FALSE) ELSE m1

RECURSIVE CallListeners(_, _)
CallListeners(m, copy) ==
  IF copy = <<>> THEN m ELSE CallListeners(CallListener(m, Head(copy)), Tail(copy))

\* fire(): calls every listener of a copy of the list, in order.
fire(m) == CallListeners([m EXCEPT !.nFires = @ + 1], m.listeners)

\* CallbackTimer.start(): no-op when running; otherwise schedules the callback.
TimerStart(m) ==
  IF m.timer.running THEN m ELSE [m EXCEPT !.timer.running = TRUE, !.timer.fired = FALSE]

\* CallbackTimer.stop( fire ): no-op when not running; otherwise clears the
\* schedule and, if asked to and the callback has not run yet, runs it once.
TimerStop(m, doFire) ==
  IF ~m.timer.running THEN m
  ELSE LET m1 == [m EXCEPT !.timer.running = FALSE]
       IN  IF doFire /\ ~m1.timer.fired THEN fire(m1) ELSE m1

\* The downProperty listener firing on every release, whatever over and enabled are.
PushDownListenerAlwaysFires(o, m, down) ==
  IF down
  THEN IF m.enabled
       THEN LET m1 == IF o.fireOnDown THEN fire(m) ELSE m
            IN  IF m1.timer.exists THEN TimerStart(m1) ELSE m1
       ELSE m
  ELSE IF m.timer.exists THEN TimerStop(m, ~o.fireOnDown)
       ELSE IF ~o.fireOnDown THEN fire(m) ELSE m

\* The downProperty listener ("Point down").
PushDownListener(o, m, down) ==
  IF down
  THEN IF m.enabled
       THEN LET m1 == IF o.fireOnDown THEN fire(m) ELSE m
            IN  IF m1.timer.exists THEN TimerStart(m1) ELSE m1
       ELSE m
  ELSE LET doFire == ~o.fireOnDown /\ m.over /\ m.enabled
       IN  IF m.timer.exists THEN TimerStop(m, doFire)
           ELSE IF doFire THEN fire(m) ELSE m

\* addListener without the membership test.
addListenerAlways(m, listener) == [m EXCEPT !.listeners = Append(@, listener)]

\* addListener: a no-op if already a listener.
addListener(m, listener) ==
  IF \E i \in 1..Len(m.listeners) : m.listeners[i] = listener
  THEN m
  ELSE [m EXCEPT !.listeners = Append(@, listener)]

\* removeListener: a no-op if not a listener; splice( i, 1 ) at the first index.
removeListener(m, listener) ==
  IF \E i \in 1..Len(m.listeners) : m.listeners[i] = listener
  THEN LET i == CHOOSE j \in 1..Len(m.listeners) :
                  /\ m.listeners[j] = listener
                  /\ \A k \in 1..(j - 1) : m.listeners[k] # listener
       IN  [m EXCEPT !.listeners = SubSeq(@, 1, i - 1) \o SubSeq(@, i + 1, Len(@))]
  ELSE m

\* The state after the constructor.  Both link() calls run their listener once:
\* downProperty is false and no timer is running, so neither changes anything.
PushConstructed(o, listener, enabled) ==
  [over |-> FALSE, down |-> FALSE, enabled |-> enabled,
   listeners |-> IF listener = NoListener THEN <<>> ELSE <<listener>>,
   timer |-> [exists |-> o.fireOnHold, running |-> FALSE, fired |-> FALSE],
   nFires |-> 0, calls |-> <<>>]

PushInit ==
  /\ options \in [fireOnDown : BOOLEAN, fireOnHold : BOOLEAN]
  /\ \E l \in Listeners \cup {NoListener}, e \in BOOLEAN : push = PushConstructed(options, l, e)
  /\ last = [op |-> "new", arg |-> "", before |-> push]

\* The push button of a run that exercises another widget: built with the default
\* options (fireOnDown: false, listener: null, fireOnHold: false) and left alone.
PushDefault ==
  /\ options = [fireOnDown |-> FALSE, fireOnHold |-> FALSE]
  /\ push = PushConstructed(options, NoListener, TRUE)
  /\ last = [op |-> "new", arg |-> "", before |-> push]

\* Every operation starts with the per-operation observations cleared.
Begin(m) == [m EXCEPT !.nFires = 0, !.calls = <<>>]

PushStep(n, op, arg) ==
  /\ push' = n
  /\ last' = [op |-> op, arg |-> arg, before |-> Begin(push)]
  /\ UNCHANGED <<options, stickyVars, viewVars, widgetVars, moreVars>>

\* overProperty.set(over): PushButtonModel links no listener to overProperty.
PushSetOver(over) ==
  /\ over \in BOOLEAN
  /\ PushStep([Begin(push) EXCEPT !.over = over], "setOver", "")

\* downProperty.set(down).
PushSetDown(down) ==
  /\ down \in BOOLEAN
  /\ PushStep(IF push.down = down THEN Begin(push)
              ELSE PushDownListener(options, [Begin(push) EXCEPT !.down = down], down),
              "setDown", "")

\* enabledProperty.set(enabled).
PushSetEnabled(enabled) ==
  /\ enabled \in BOOLEAN
  /\ PushStep(PushSetEnabledProperty(Begin(push), enabled), "setEnabled", "")

\* The timer's delay or interval elapses: CallbackTimer runs its callback, fire().
PushTimerFires ==
  /\ push.timer.running
  /\ PushStep(fire([Begin(push) EXCEPT !.timer.fired = TRUE]), "timer", "")

PushAddListener(listener) ==
  /\ listener \in Listeners
  /\ PushStep(addListener(Begin(push), listener), "addListener", listener)

PushRemoveListener(listener) ==
  /\ listener \in Listeners
  /\ PushStep(removeListener(Begin(push), listener), "removeListener", listener)

\* fire() called directly (it is public).
PushFire ==
  /\ push' = fire(Begin(push))
  /\ last' = [op |-> "fire", arg |-> "", before |-> Begin(push)]
  /\ UNCHANGED <<options, stickyVars, viewVars, widgetVars, moreVars>>

PushNext ==
  \/ \E b \in BOOLEAN : PushSetOver(b)
  \/ \E b \in BOOLEAN : PushSetDown(b)
  \/ \E b \in BOOLEAN : PushSetEnabled(b)
  \/ PushTimerFires
  \/ \E l \in Listeners : PushAddListener(l)
  \/ \E l \in Listeners : PushRemoveListener(l)
  \/ PushFire

(***************************************************************************)
(* Rectangular push button view: the (over, down, enabled) tuple of its    *)
(* model, PushButtonInteractionStateProperty, and the appearance strategy  *)
(* of src/js/buttons/RectangularButton.js linked to it.                    *)
(***************************************************************************)

InteractionStates == {"IDLE", "OVER", "PRESSED", "DISABLED", "DISABLED_PRESSED"}

\* PushButtonInteractionStateProperty's derivation from the model's tuple.
PushButtonInteractionState(over, down, enabled) ==
  IF ~enabled /\ down THEN "DISABLED_PRESSED"
  ELSE IF ~enabled THEN "DISABLED"
  ELSE IF over /\ ~down THEN "OVER"
  ELSE IF over /\ down THEN "PRESSED"
  ELSE "IDLE"

\* options.stroke: explicitly null, left undefined, or a stroke of the client.
StrokeOptions == {"null", "undefined", "custom"}

enabledStroke(strokeOption) ==
  CASE strokeOption = "null" -> "null"
    [] strokeOption = "undefined" -> "baseDarker4"
    [] OTHER -> "options.stroke"

disabledStroke(strokeOption) ==
  IF strokeOption = "null" THEN "null" ELSE "disabledBaseDarker4"

\* The interaction states of the other button families (RadioButtonInteractionState)
\* that a client can hand to a strategy of this file by mistake.
UnsupportedInteractionStates == {"SELECTED", "DESELECTED"}

\* ThreeDAppearanceStrategy.updateAppearance with a default case that ignores
\* the value instead of throwing.
ThreeDUpdateAppearanceIgnores(v, interactionState) ==
  CASE interactionState = "IDLE" ->
         [v EXCEPT !.button.fill = "upFillVertical",
                   !.overlay.stroke = enabledStroke(v.stroke),
                   !.overlay.fill = "upFillHorizontal"]
    [] interactionState = "OVER" ->
         [v EXCEPT !.button.fill = "overFillVertical",
                   !.overlay.stroke = enabledStroke(v.stroke),
                   !.overlay.fill = "overFillHorizontal"]
    [] interactionState = "PRESSED" ->
         [v EXCEPT !.button.fill = "downFillVertical",
                   !.overlay.stroke = enabledStroke(v.stroke),
                   !.overlay.fill = "overFillHorizontal"]
    [] interactionState = "DISABLED" ->
         [v EXCEPT !.button.fill = "disabledFillVertical",
                   !.button.stroke = disabledStroke(v.stroke),
                   !.overlay.stroke = disabledStroke(v.stroke),
                   !.overlay.fill = "disabledFillHorizontal"]
    [] interactionState = "DISABLED_PRESSED" ->
         [v EXCEPT !.button.fill = "disabledPressedFillVertical",
                   !.button.stroke = disabledStroke(v.stroke),
                   !.overlay.stroke = disabledStroke(v.stroke),
                   !.overlay.fill = "disabledFillHorizontal"]
    [] OTHER -> v

\* ThreeDAppearanceStrategy.updateAppearance; the default case throws.
ThreeDUpdateAppearance(v, interactionState) ==
  CASE interactionState = "IDLE" ->
         [v EXCEPT !.button.fill = "upFillVertical",
                   !.overlay.stroke = enabledStroke(v.stroke),
                   !.overlay.fill = "upFillHorizontal"]
    [] interactionState = "OVER" ->
         [v EXCEPT !.button.fill = "overFillVertical",
                   !.overlay.stroke = enabledStroke(v.stroke),
                   !.overlay.fill = "overFillHorizontal"]
    [] interactionState = "PRESSED" ->
         [v EXCEPT !.button.fill = "downFillVertical",
                   !.overlay.stroke = enabledStroke(v.stroke),
                   !.overlay.fill = "overFillHorizontal"]
    [] interactionState = "DISABLED" ->
         [v EXCEPT !.button.fill = "disabledFillVertical",
                   !.button.stroke = disabledStroke(v.stroke),
                   !.overlay.stroke = disabledStroke(v.stroke),
                   !.overlay.fill = "disabledFillHorizontal"]
    [] interactionState = "DISABLED_PRESSED" ->
         [v EXCEPT !.button.fill = "disabledPressedFillVertical",
                   !.button.stroke = disabledStroke(v.stroke),
                   !.overlay.stroke = disabledStroke(v.stroke),
                   !.overlay.fill = "disabledFillHorizontal"]
    [] OTHER -> [v EXCEPT !.error = "unsupported interactionState"]

\* FlatAppearanceStrategy.updateAppearance; the default case throws.
FlatUpdateAppearance(v, interactionState) ==
  CASE interactionState = "IDLE" ->
         [v EXCEPT !.button.fill = "baseColor",
                   !.button.stroke = enabledStroke(v.stroke)]
    [] interactionState = "OVER" ->
         [v EXCEPT !.button.fill = "baseBrighter4",
                   !.button.stroke = enabledStroke(v.stroke)]
    [] interactionState = "PRESSED" ->
         [v EXCEPT !.button.fill = "baseDarker4",
                   !.button.stroke = enabledStroke(v.stroke)]
    [] interactionState = "DISABLED" ->
         [v EXCEPT !.button.fill = "disabledBaseColor",
                   !.button.stroke = disabledStroke(v.stroke)]
    [] interactionState = "DISABLED_PRESSED" ->
         [v EXCEPT !.button.fill = "disabledBaseColor",
                   !.button.stroke = disabledStroke(v.stroke)]
    [] OTHER -> [v EXCEPT !.error = "unsupported interactionState"]

\* The strategy's listener on interactionStateProperty.
updateAppearance(v, interactionState) ==
  IF v.strategy = "ThreeD"
  THEN ThreeDUpdateAppearance(v, interactionState)
  ELSE FlatUpdateAppearance(v, interactionState)

\* A derivation that keeps the previous state while the button is disabled.
DeriveInteractionStateFrozen(v) ==
  LET state == IF v.enabled
               THEN PushButtonInteractionState(v.over, v.down, v.enabled)
               ELSE IF v.interactionState \in {"DISABLED", "DISABLED_PRESSED"}
                    THEN v.interactionState
                    ELSE PushButtonInteractionState(v.over, v.down, v.enabled)
  IN  IF state = v.interactionState THEN v
      ELSE updateAppearance([v EXCEPT !.interactionState = state], state)

\* A derivation that reads the tuple only when over or down changes.
DeriveInteractionStateStale(v) ==
  LET state == IF v.interactionState \in {"DISABLED", "DISABLED_PRESSED"} /\ v.enabled
               THEN "IDLE"
               ELSE PushButtonInteractionState(v.over, v.down, v.enabled)
  IN  IF state = v.interactionState THEN v
      ELSE updateAppearance([v EXCEPT !.interactionState = state], state)

\* A dependency of the interaction-state property changed: the property is
\* recomputed and, if its value changed, its listeners (updateAppearance) run.
DeriveInteractionState(v) ==
  LET state == PushButtonInteractionState(v.over, v.down, v.enabled)
  IN  IF state = v.interactionState THEN v
      ELSE updateAppearance([v EXCEPT !.interactionState = state], state)

\* The view after its constructor: the background Path is created with the base
\* colour as fill and no stroke, the 3D strategy adds its overlay Path, and
\* interactionStateProperty.link( updateAppearance ) runs the first update.
ViewConstructed(strategy, strokeOption) ==
  LET v0 == [strategy |-> strategy, stroke |-> strokeOption,
             over |-> FALSE, down |-> FALSE, enabled |-> TRUE,
             interactionState |-> PushButtonInteractionState(FALSE, FALSE, TRUE),
             button |-> [fill |-> "baseColor", stroke |-> "null"],
             overlay |-> IF strategy = "ThreeD"
                         THEN [fill |-> "null", stroke |-> "null"]
                         ELSE [fill |-> "none", stroke |-> "none"],
             error |-> "", op |-> "new"]
  IN  updateAppearance(v0, v0.interactionState)

NoShot == [taken |-> FALSE]

Snapshot(v) ==
  [taken |-> TRUE, over |-> v.over, down |-> v.down, enabled |-> v.enabled,
   interactionState |-> v.interactionState, button |-> v.button, overlay |-> v.overlay]

ViewInit ==
  /\ \E st \in {"ThreeD", "Flat"}, so \in StrokeOptions : view = ViewConstructed(st, so)
  /\ shot \in {NoShot, Snapshot(view)}

\* The view of a run that exercises another widget.
ViewDefault ==
  /\ view = ViewConstructed("ThreeD", "undefined")
  /\ shot = NoShot

ViewStep(n) ==
  /\ view' = n
  /\ shot' \in {shot, Snapshot(n)}
  /\ UNCHANGED <<stickyVars, pushVars, widgetVars, moreVars>>

\* overProperty.set(over).
ViewSetOver(over) ==
  /\ over \in BOOLEAN
  /\ ViewStep(DeriveInteractionState([view EXCEPT !.over = over, !.op = "setOver"]))

\* downProperty.set(down).
ViewSetDown(down) ==
  /\ down \in BOOLEAN
  /\ ViewStep(DeriveInteractionState([view EXCEPT !.down = down, !.op = "setDown"]))

\* enabledProperty.set(enabled).
ViewSetEnabled(enabled) ==
  /\ enabled \in BOOLEAN
  /\ ViewStep(DeriveInteractionState(
       [view EXCEPT !.enabled = enabled,
                    !.op = IF enabled /\ ~view.enabled THEN "enable" ELSE "setEnabled"]))

ViewNext ==
  \/ \E b \in BOOLEAN : ViewSetOver(b)
  \/ \E b \in BOOLEAN : ViewSetDown(b)
  \/ \E b \in BOOLEAN : ViewSetEnabled(b)

\* interactionStateProperty.set(state) on the Property a strategy was built
\* with: the strategies are public (RectangularButton.ThreeDAppearanceStrategy,
\* RectangularButton.FlatAppearanceStrategy) and take any Property.  The
\* listener runs when the value changes; an Error it throws leaves set().
StrategySetInteractionState(state) ==
  /\ state \in InteractionStates \cup UnsupportedInteractionStates
  /\ view' = IF state = view.interactionState
             THEN [view EXCEPT !.error = "", !.op = "setInteractionState"]
             ELSE updateAppearance([view EXCEPT !.interactionState = state, !.error = "",
                                                !.op = "setInteractionState"], state)
  /\ shot' = Snapshot(view)
  /\ UNCHANGED <<stickyVars, pushVars, widgetVars, moreVars>>

StrategyNext ==
  \E s \in InteractionStates \cup UnsupportedInteractionStates : StrategySetInteractionState(s)

(***************************************************************************)
(* Slider (src/js/Slider.js 1-420)                                         *)
(***************************************************************************)

\* The slider's range is [0, SliderRangeMax]; options.trackSize.width is
\* TrackScale times as much, so that a value v is at position TrackScale * v.
SliderRangeMax == 2

TrackScale == 2

SliderRange == [min |-> 0, max |-> SliderRangeMax]

\* The ranges a client may set as enabled range (within the full range).
EnabledRanges ==
  {r \in [min : 0..SliderRangeMax, max : 0..SliderRangeMax] : r.min < r.max}

\* Ranges that reach out of the full range, below or above.
OutOfRanges == {[min |-> -1, max |-> 1], [min |-> 1, max |-> SliderRangeMax + 1]}

\* Util.clamp
clamp(value, min, max) == IF value < min THEN min ELSE IF value > max THEN max ELSE value

Observers == {"valueObserver", "enabledObserver", "enabledRangeObserver"}

\* new LinearFunction( a1, a2, b1, b2, true ) evaluated at a3: the line through
\* (a1, b1) and (a2, b2), clamped to [b1, b2].
LinearFunction(f, a3) ==
  clamp(((f.b2 - f.b1) * (a3 - f.a1)) \div (f.a2 - f.a1) + f.b1, f.b1, f.b2)

\* LinearFunction.inverse evaluated at b3, clamped to [a1, a2].
LinearFunctionInverse(f, b3) ==
  clamp(((f.a2 - f.a1) * (b3 - f.b1)) \div (f.b2 - f.b1) + f.a1, f.a1, f.a2)

\* self.valueToPosition( value )
valueToPosition(sl, value) == LinearFunction(sl.valueToPosition, value)

\* self.valueToPosition.inverse( x )
positionToValue(sl, x) == LinearFunctionInverse(sl.valueToPosition, x)

\* valueObserver: moves the thumb to the position of the value.
valueObserver(sl, value) == [sl EXCEPT !.thumbCenterX = valueToPosition(sl, value)]

\* valueProperty.set(value): notifies valueObserver while it is linked.
SliderSetValueProperty(sl, value) ==
  IF sl.value = value THEN sl
  ELSE LET s1 == [sl EXCEPT !.value = value]
       IN  IF "valueObserver" \in s1.links THEN valueObserver(s1, value) ELSE s1

\* thumbInputListener's end callback.
thumbEnd(sl) == IF sl.enabled THEN [sl EXCEPT !.endDrag = @ + 1] ELSE sl

\* SimpleDragHandler.endDrag(): ends the drag and calls the end callback.
thumbEndDrag(sl) == thumbEnd([sl EXCEPT !.dragging = FALSE])

\* enabledObserver
enabledObserver(sl, enabled) ==
  LET s1 == [sl EXCEPT !.cursor = IF sl.enabled THEN "pointer" ELSE "default"]
      s2 == IF ~enabled /\ s1.dragging THEN thumbEndDrag(s1) ELSE s1
  IN  [s2 EXCEPT !.pickable = enabled]

\* The mapping of the full range onto the whole track.
initialValueToPosition ==
  [a1 |-> SliderRange.min, a2 |-> SliderRange.max, b1 |-> 0,
   b2 |-> TrackScale * SliderRangeMax]

\* enabledRangeObserver that keeps the initial mapping and does not clamp the value.
enabledRangeObserverKeeps(sl, enabledRange) ==
  IF ~(enabledRange.min >= SliderRange.min /\ enabledRange.max <= SliderRange.max)
  THEN [sl EXCEPT !.error = "enabledRange is out of range"]
  ELSE LET min == LinearFunction(initialValueToPosition, enabledRange.min)
           max == LinearFunction(initialValueToPosition, enabledRange.max)
       IN  [sl EXCEPT !.enabledTrack = [min |-> min, max |-> max]]

\* enabledRangeObserver; the assertion throws before anything is updated.
enabledRangeObserver(sl, enabledRange) ==
  IF ~(enabledRange.min >= SliderRange.min /\ enabledRange.max <= SliderRange.max)
  THEN [sl EXCEPT !.error = "enabledRange is out of range"]
  ELSE LET min == LinearFunction(initialValueToPosition, enabledRange.min)
           max == LinearFunction(initialValueToPosition, enabledRange.max)
           s1 == [sl EXCEPT !.valueToPosition = [a1 |-> enabledRange.min,
                                                 a2 |-> enabledRange.max,
                                                 b1 |-> min, b2 |-> max],
                            !.enabledTrack = [min |-> min, max |-> max]]
       IN  SliderSetValueProperty(s1, clamp(s1.value, enabledRange.min, enabledRange.max))

\* The slider after its constructor: the three link() calls have run their
\* observers once.  ownsEnabledProperty / ownsEnabledRangeProperty tell whether
\* the slider created the Property or the client passed it in options.
SliderConstructed(value, ownsEnabled, ownsEnabledRange, enabled, enabledRange) ==
  LET s0 == [ownsEnabledProperty |-> ownsEnabled,
             ownsEnabledRangeProperty |-> ownsEnabledRange,
             value |-> value,
             enabled |-> IF ownsEnabled THEN TRUE ELSE enabled,
             enabledRange |-> IF ownsEnabledRange THEN SliderRange ELSE enabledRange,
             valueToPosition |-> initialValueToPosition,
             enabledTrack |-> [min |-> 0, max |-> TrackScale * SliderRangeMax],
             thumbCenterX |-> 0, cursor |-> "pointer", pickable |-> TRUE,
             dragging |-> FALSE, startDrag |-> 0, endDrag |-> 0,
             links |-> {}, disposed |-> FALSE, error |-> "",
             op |-> "new", before |-> [value |-> value, linked |-> TRUE]]
      s1 == enabledObserver([s0 EXCEPT !.links = @ \cup {"enabledObserver"}], s0.enabled)
      s2 == valueObserver([s1 EXCEPT !.links = @ \cup {"valueObserver"}], s1.value)
  IN  enabledRangeObserver([s2 EXCEPT !.links = @ \cup {"enabledRangeObserver"}],
                           s2.enabledRange)

SliderInit ==
  \E v \in 0..SliderRangeMax, oe \in BOOLEAN, oer \in BOOLEAN, e \in BOOLEAN,
     er \in EnabledRanges :
    slider = SliderConstructed(v, oe, oer, e, er)

\* The slider of a run that exercises another widget.
SliderDefault == slider = SliderConstructed(0, TRUE, TRUE, TRUE, SliderRange)

\* before: the value, and whether enabledRangeObserver was linked, when the
\* operation started.  An Error thrown by an operation is seen right after it.
SliderStep(n, op) ==
  /\ slider' = [n EXCEPT !.op = op,
                         !.before = [value |-> slider.value,
                                     linked |-> "enabledRangeObserver" \in slider.links],
                         !.error = IF op = "setEnabledRange" THEN @ ELSE ""]
  /\ UNCHANGED <<stickyVars, pushVars, viewVars, buttons, moreVars>>

\* thumbInputListener start: a pointer goes down on the thumb.  A disabled
\* slider is not pickable, so no pointer reaches its thumb.
SliderThumbStart ==
  /\ ~slider.disposed /\ slider.pickable /\ ~slider.dragging
  /\ SliderStep(IF slider.enabled
                THEN [slider EXCEPT !.dragging = TRUE, !.startDrag = 1, !.endDrag = 0]
                ELSE [slider EXCEPT !.dragging = TRUE, !.startDrag = 0, !.endDrag = 0],
                "start")

\* thumbInputListener drag: the pointer moves to track position x, the
\* position of one of the integer values.
SliderThumbDrag(x) ==
  /\ ~slider.disposed /\ slider.dragging
  /\ SliderStep(IF slider.enabled
                THEN SliderSetValueProperty(slider, positionToValue(slider, x))
                ELSE slider,
                "drag")

\* The pointer goes up: SimpleDragHandler ends the drag.
SliderThumbEnd ==
  /\ ~slider.disposed /\ slider.dragging
  /\ SliderStep(thumbEndDrag(slider), "end")

\* enabledProperty.set(enabled), by setEnabled or by the client that owns the
\* Property.  A Property the slider owns is disposed with it.
SliderSetEnabled(enabled) ==
  /\ ~(slider.disposed /\ slider.ownsEnabledProperty)
  /\ slider.enabled # enabled
  /\ SliderStep(LET s1 == [slider EXCEPT !.enabled = enabled]
                IN  IF "enabledObserver" \in s1.links
                    THEN enabledObserver(s1, enabled) ELSE s1,
                "setEnabled")

\* enabledRangeProperty.set(enabledRange), by setEnabledRange or by the client.
SliderSetEnabledRange(enabledRange) ==
  /\ ~(slider.disposed /\ slider.ownsEnabledRangeProperty)
  /\ slider.enabledRange # enabledRange
  /\ SliderStep(LET s1 == [slider EXCEPT !.enabledRange = enabledRange, !.error = ""]
                IN  IF "enabledRangeObserver" \in s1.links
                    THEN enabledRangeObserver(s1, enabledRange) ELSE s1,
                "setEnabledRange")

\* valueProperty.set(value) by the client.
SliderSetValue(value) ==
  /\ value \in 0..SliderRangeMax
  /\ SliderStep(SliderSetValueProperty(slider, value), "setValue")

\* disposeSlider: unlinks valueObserver, disposes the Properties the slider
\* owns (Property.dispose drops every listener) and the thumb's drag listener.
disposeSlider(sl) ==
  LET s1 == [sl EXCEPT !.links = @ \ {"valueObserver"}]
      s2 == IF s1.ownsEnabledRangeProperty
            THEN [s1 EXCEPT !.links = @ \ {"enabledRangeObserver"}] ELSE s1
      s3 == IF s2.ownsEnabledProperty
            THEN [s2 EXCEPT !.links = @ \ {"enabledObserver"}] ELSE s2
  IN  [s3 EXCEPT !.dragging = FALSE, !.disposed = TRUE]

\* Slider.dispose()
SliderDispose ==
  /\ ~slider.disposed
  /\ SliderStep(disposeSlider(slider), "dispose")

SliderNext ==
  \/ SliderThumbStart
  \/ \E v \in 0..SliderRangeMax : SliderThumbDrag(TrackScale * v)
  \/ SliderThumbEnd
  \/ \E b \in BOOLEAN : SliderSetEnabled(b)
  \/ \E r \in EnabledRanges \cup OutOfRanges : SliderSetEnabledRange(r)
  \/ \E v \in 0..SliderRangeMax : SliderSetValue(v)
  \/ SliderDispose

(***************************************************************************)
(* Toggle buttons: RoundToggleButton and RoundStickyToggleButton           *)
(* (src/js/buttons/RoundToggleButton.js), RectangularToggleButton          *)
(* (src/js/buttons/RectangularButton.js 794-875, and its 2014-2015 version *)
(* src/js/buttons/RectangularToggleButton.js).                             *)
(***************************************************************************)

ButtonClasses ==
  {"RoundToggleButton", "RoundStickyToggleButton",
   "RectangularToggleButton", "RectangularToggleButton2015"}

\* What the constructor sets up: the toggle button model, the interaction-state
\* property derived from it, and (but for the 2014-2015 class, which has no
\* sound generation) playSounds added to produceSoundEmitter.
ButtonConstructed(class, value) ==
  [value |-> value,
   toggleButtonModel |-> TRUE,
   interactionStateProperty |-> TRUE,
   soundListener |-> class # "RectangularToggleButton2015",
   sound |-> "none",
   disposed |-> FALSE]

\* playSounds
playSounds(b) ==
  IF b.value = "valueOff" THEN [b EXCEPT !.sound = "valueOffSound"]
  ELSE IF b.value = "valueOn" THEN [b EXCEPT !.sound = "valueOnSound"]
  ELSE b

\* disposeRoundToggleButton
disposeRoundToggleButton(b) ==
  [b EXCEPT !.soundListener = FALSE, !.toggleButtonModel = FALSE,
            !.interactionStateProperty = FALSE]

\* disposeRoundStickyToggleButton
disposeRoundStickyToggleButton(b) ==
  [b EXCEPT !.soundListener = FALSE, !.toggleButtonModel = FALSE,
            !.interactionStateProperty = FALSE]

\* disposeRectangularToggleButton
disposeRectangularToggleButton(b) ==
  [b EXCEPT !.soundListener = FALSE, !.interactionStateProperty = FALSE]

\* dispose() of each class.
dispose(class, b) ==
  LET d == CASE class = "RoundToggleButton" -> disposeRoundToggleButton(b)
             [] class = "RoundStickyToggleButton" -> disposeRoundStickyToggleButton(b)
             [] class = "RectangularToggleButton" -> disposeRectangularToggleButton(b)
             [] OTHER -> b
  IN  [d EXCEPT !.disposed = TRUE]

ButtonsInit ==
  \E f \in [ButtonClasses -> {"valueOff", "valueOn"}] :
    buttons = [c \in ButtonClasses |-> ButtonConstructed(c, f[c])]

\* The toggle buttons of a run that exercises another widget.
ButtonsDefault == buttons = [c \in ButtonClasses |-> ButtonConstructed(c, "valueOff")]

ButtonsStep(class, b) ==
  /\ buttons' = [buttons EXCEPT ![class] = b]
  /\ UNCHANGED <<stickyVars, pushVars, viewVars, slider, moreVars>>

\* produceSoundEmitter.emit(): calls playSounds while it is registered.
ButtonsProduceSound(class) ==
  /\ buttons[class].toggleButtonModel
  /\ ButtonsStep(class, IF buttons[class].soundListener
                        THEN playSounds(buttons[class]) ELSE buttons[class])

\* property.set(value): the button's property changes (toggled or set by the client).
ButtonsSetProperty(class, value) ==
  /\ buttons[class].value # value
  /\ ButtonsStep(class, [buttons[class] EXCEPT !.value = value])

\* dispose()
ButtonsDispose(class) ==
  /\ ~buttons[class].disposed
  /\ ButtonsStep(class, dispose(class, buttons[class]))

ButtonsNext ==
  \/ \E c \in ButtonClasses : ButtonsProduceSound(c)
  \/ \E c \in ButtonClasses, v \in {"valueOff", "valueOn"} : ButtonsSetProperty(c, v)
  \/ \E c \in ButtonClasses : ButtonsDispose(c)

(***************************************************************************)
(* Option validation of the constructors: RectangularButton                *)
(* (src/js/buttons/RectangularButton.js 33-185), ComboBox and Panel        *)
(* (src/js/ComboBox.js 40-120, 450-460) and Slider (src/js/Slider.js).     *)
(* config.assert tells whether the build has assertions enabled: every     *)
(* check of the source is written `assert && assert( ... )`.               *)
(***************************************************************************)

X_ALIGN_VALUES == {"center", "left", "right"}
Y_ALIGN_VALUES == {"center", "top", "bottom"}
LIST_POSITION_VALUES == {"above", "below"}
ALIGN_VALUES == {"left", "right", "center"}

\* Margins a client may pass: negative, zero, and the default of xMargin.
Margins == {-1, 0, 8}

\* RectangularButton's minWidth / minHeight defaults and the size of the content.
MinButtonSize == 10
ContentSize == 20

NotConstructed == [widget |-> "none", built |-> FALSE, error |-> ""]

\* assert( predicate, message ) of a build with assertions enabled or not:
\* the first failing assertion throws and ends the constructor.
AssertionFailure(assert, checks) ==
  IF assert /\ \E i \in 1..Len(checks) : ~checks[i].ok
  THEN checks[CHOOSE i \in 1..Len(checks) :
                /\ ~checks[i].ok
                /\ \A j \in 1..(i - 1) : checks[j].ok].message
  ELSE ""

\* new RectangularButton( buttonModel, interactionStateProperty, options )
RectangularButtonConstructor(assert, o) ==
  LET error == AssertionFailure(assert,
                 <<[ok |-> o.xAlign \in X_ALIGN_VALUES, message |-> "invalid xAlign"],
                   [ok |-> o.yAlign \in Y_ALIGN_VALUES, message |-> "invalid yAlign"]>>)
  IN  IF error # ""
      THEN [widget |-> "RectangularButton", assert |-> assert, options |-> o,
            built |-> FALSE, error |-> error]
      ELSE [widget |-> "RectangularButton", assert |-> assert, options |-> o,
            built |-> TRUE, error |-> "",
            buttonWidth |->
              LET width == IF o.content THEN ContentSize + o.xMargin * 2 ELSE 0
              IN  IF width >= MinButtonSize THEN width ELSE MinButtonSize,
            buttonHeight |->
              LET height == IF o.content THEN ContentSize + o.yMargin * 2 ELSE 0
              IN  IF height >= MinButtonSize THEN height ELSE MinButtonSize]

\* new ComboBox( items, property, listParent, options )
ComboBoxConstructor(assert, o) ==
  LET error == AssertionFailure(assert,
                 <<[ok |-> o.xMargin > 0 /\ o.yMargin > 0, message |-> "margins must be > 0"],
                   [ok |-> o.disabledOpacity > 0 /\ o.disabledOpacity < 100,
                    message |-> "invalid disabledOpacity"],
                   [ok |-> o.listPosition \in LIST_POSITION_VALUES,
                    message |-> "invalid listPosition"],
                   [ok |-> o.align \in ALIGN_VALUES, message |-> "invalid align"]>>)
  IN  [widget |-> "ComboBox", assert |-> assert, options |-> o,
       built |-> error = "", error |-> error]

\* new Panel( content, options )
PanelConstructor(assert, o) ==
  LET error == AssertionFailure(assert,
                 <<[ok |-> o.align \in ALIGN_VALUES, message |-> "invalid align"]>>)
  IN  [widget |-> "Panel", assert |-> assert, options |-> o,
       built |-> error = "", error |-> error]

\* new Slider( valueProperty, range, options )
SliderConstructor(assert, o) ==
  LET error == AssertionFailure(assert,
                 <<[ok |-> o.orientation = "horizontal" \/ o.orientation = "vertical",
                    message |-> "invalid orientation"],
                   [ok |-> ~o.rotation,
                    message |-> "Slider specifies rotation based on orientation"]>>)
  IN  [widget |-> "Slider", assert |-> assert, options |-> o,
       built |-> error = "", error |-> error]

ConfigStep(n) ==
  /\ config' = n
  /\ UNCHANGED <<stickyVars, pushVars, viewVars, widgetVars, toggle2, dialogVars, combo>>

ConstructRectangularButton(assert, o) ==
  /\ assert \in BOOLEAN
  /\ ConfigStep(RectangularButtonConstructor(assert, o))

ConstructComboBox(assert, o) ==
  /\ assert \in BOOLEAN
  /\ ConfigStep(ComboBoxConstructor(assert, o))

ConstructPanel(assert, o) ==
  /\ assert \in BOOLEAN
  /\ ConfigStep(PanelConstructor(assert, o))

ConstructSlider(assert, o) ==
  /\ assert \in BOOLEAN
  /\ ConfigStep(SliderConstructor(assert, o))

\* Each option takes its allowed values and a wrong one; disabledOpacity is in
\* hundredths (the default 0.5, and 1); rotation tells whether it was given.
ConfigNext ==
  \/ \E a \in BOOLEAN,
        o \in [xAlign : X_ALIGN_VALUES \cup {"middle"}, yAlign : Y_ALIGN_VALUES \cup {"middle"},
               xMargin : Margins, yMargin : Margins, content : BOOLEAN] :
        ConstructRectangularButton(a, o)
  \/ \E a \in BOOLEAN,
        o \in [xMargin : Margins, yMargin : Margins, disabledOpacity : {50, 100},
               listPosition : LIST_POSITION_VALUES \cup {"left"},
               align : ALIGN_VALUES \cup {"top"}] : ConstructComboBox(a, o)
  \/ \E a \in BOOLEAN, o \in [align : ALIGN_VALUES \cup {"top"}] : ConstructPanel(a, o)
  \/ \E a \in BOOLEAN,
        o \in [orientation : {"horizontal", "vertical", "diagonal"}, rotation : BOOLEAN] :
        ConstructSlider(a, o)

(***************************************************************************)
(* Experimental ToggleButtonModel (src/unnamed/part_002), the model behind *)
(* the experimental RoundStickyToggleButton.  It is an input listener: its *)
(* down / up callbacks are called with the pointer of the event, enter and *)
(* exit keep overPointer as the ButtonListener of                          *)
(* src/js/experimental/buttons/RoundStickyToggleButton.js does.            *)
(***************************************************************************)

Pointers == {"p1", "p2"}
NoPointer == "null"

\* The down callback without the toggleOnDown branch.
toggleModelDownNoToggle(m, pointer) ==
  LET m1 == IF m.downPointer = NoPointer THEN [m EXCEPT !.downPointer = pointer] ELSE m
  IN  IF m1.buttonEnabled /\ pointer = m1.downPointer
      THEN [m1 EXCEPT !.interactionState = "pressed"]
      ELSE m1

\* The down callback of ToggleButtonModel.
toggleModelDown(m, pointer) ==
  LET m1 == IF m.downPointer = NoPointer THEN [m EXCEPT !.downPointer = pointer] ELSE m
  IN  IF m1.buttonEnabled /\ pointer = m1.downPointer
      THEN LET m2 == [m1 EXCEPT !.interactionState = "pressed"]
           IN  IF m2.toggleOnDown
               THEN [m2 EXCEPT !.buttonStateUp = ~@, !.nFlips = @ + 1]
               ELSE m2
      ELSE m1

\* The up callback of ToggleButtonModel.
toggleModelUp(m, pointer) ==
  LET m1 == IF m.buttonEnabled
            THEN LET m2 == [m EXCEPT !.interactionState =
                                       IF m.overPointer = NoPointer THEN "idle"
                                       ELSE IF m.buttonStateUp THEN "pressed"
                                       ELSE "over"]
                 IN  IF ~m2.toggleOnDown /\ m2.downPointer = pointer
                                        /\ m2.overPointer = pointer
                     THEN [m2 EXCEPT !.buttonStateUp = ~@, !.nFlips = @ + 1]
                     ELSE m2
            ELSE m
  IN  IF pointer = m1.downPointer THEN [m1 EXCEPT !.downPointer = NoPointer] ELSE m1

\* enter: the first pointer to enter becomes overPointer.
toggleModelEnter(m, pointer) ==
  IF m.overPointer = NoPointer THEN [m EXCEPT !.overPointer = pointer] ELSE m

\* exit: overPointer leaving clears it.
toggleModelExit(m, pointer) ==
  IF pointer = m.overPointer THEN [m EXCEPT !.overPointer = NoPointer] ELSE m

\* new ToggleButtonModel( { toggleOnDown: ... } ): buttonStateUp starts true.
ToggleModelConstructed(toggleOnDown, enabled) ==
  [toggleOnDown |-> toggleOnDown, buttonStateUp |-> TRUE, buttonEnabled |-> enabled,
   overPointer |-> NoPointer, downPointer |-> NoPointer, interactionState |-> "idle",
   pressed |-> {}, nFlips |-> 0]

(* Observation of the cycle of downPointer: it starts when downPointer is
   set and ends when it is cleared.
     phase           "none", "pressed" or "released"
     enabledAtPress  buttonEnabled when the press happened
     atPress / atRelease   flips of buttonStateUp made by the press / the release
     flips           all the flips of buttonStateUp since the press
     overAtRelease   overPointer was the releasing pointer, with the button enabled *)
CycleInit ==
  [phase |-> "none", enabledAtPress |-> FALSE, atPress |-> 0, atRelease |-> 0,
   flips |-> 0, overAtRelease |-> FALSE]

ObserveCycle(c, m, n) ==
  IF m.downPointer = NoPointer /\ n.downPointer # NoPointer
  THEN [phase |-> "pressed", enabledAtPress |-> m.buttonEnabled, atPress |-> n.nFlips,
        atRelease |-> 0, flips |-> n.nFlips, overAtRelease |-> FALSE]
  ELSE IF m.downPointer # NoPointer /\ n.downPointer = NoPointer
  THEN [c EXCEPT !.phase = "released", !.atRelease = n.nFlips, !.flips = @ + n.nFlips,
                 !.overAtRelease = m.buttonEnabled /\ m.overPointer = m.downPointer]
  ELSE IF c.phase = "pressed"
  THEN [c EXCEPT !.flips = @ + n.nFlips]
  ELSE c

ToggleModelInit ==
  \E t \in BOOLEAN, e \in BOOLEAN :
    toggle2 = [model |-> ToggleModelConstructed(t, e), cycle |-> CycleInit]

ToggleModelStep(n) ==
  /\ toggle2' = [model |-> n, cycle |-> ObserveCycle(toggle2.cycle, toggle2.model, n)]
  /\ UNCHANGED <<stickyVars, pushVars, viewVars, widgetVars, config, dialogVars, combo>>

\* A pointer goes down on the button's node.
ToggleModelDown(pointer) ==
  /\ pointer \notin toggle2.model.pressed
  /\ ToggleModelStep(toggleModelDown([toggle2.model EXCEPT !.pressed = @ \cup {pointer},
                                                           !.nFlips = 0], pointer))

\* A pointer that went down on the node goes up.
ToggleModelUp(pointer) ==
  /\ pointer \in toggle2.model.pressed
  /\ ToggleModelStep(toggleModelUp([toggle2.model EXCEPT !.pressed = @ \ {pointer},
                                                         !.nFlips = 0], pointer))

ToggleModelEnter(pointer) ==
  /\ pointer \in Pointers
  /\ ToggleModelStep(toggleModelEnter([toggle2.model EXCEPT !.nFlips = 0], pointer))

ToggleModelExit(pointer) ==
  /\ pointer \in Pointers
  /\ ToggleModelStep(toggleModelExit([toggle2.model EXCEPT !.nFlips = 0], pointer))

\* buttonEnabled is set by the client.
ToggleModelSetEnabled(enabled) ==
  /\ enabled \in BOOLEAN
  /\ ToggleModelStep([toggle2.model EXCEPT !.buttonEnabled = enabled, !.nFlips = 0])

ToggleModelNext ==
  \/ \E p \in Pointers : ToggleModelDown(p)
  \/ \E p \in Pointers : ToggleModelUp(p)
  \/ \E p \in Pointers : ToggleModelEnter(p)
  \/ \E p \in Pointers : ToggleModelExit(p)
  \/ \E b \in BOOLEAN : ToggleModelSetEnabled(b)

(***************************************************************************)
(* Dialog (src/js/Dialog.js): the version that keeps an isShowing flag     *)
(* (lines 1-432, "flag") and the newer one that listens to the             *)
(* isShowingProperty of PopupablePanel (lines 433-891, "property").  The   *)
(* dialogs of a sim share its popup stack, its accessible views and the    *)
(* display's focus.  Operators take and return st = [sim, dialogs].        *)
(***************************************************************************)

DialogIds == {"d1", "d2"}

\* Nodes: nodeA and nodeB are focusable nodes of the screen views, nodeC is the
\* node a client can pass as options.focusOnCloseNode.
NoNode == "null"

\* One step of the running operation, appended to the sim's trace.
Did(st, step) == [st EXCEPT !.sim.trace = Append(@, step)]

\* sim.showPopup( dialog, isModal ): pushes the dialog on the sim's popups.
showPopup(st, d) ==
  Did([st EXCEPT !.sim.popups = @ \cup {d},
                 !.dialogs[d].alternates = @ /\ st.dialogs[d].lastPopup # "showPopup",
                 !.dialogs[d].lastPopup = "showPopup"], "showPopup")

\* sim.hidePopup( dialog, isModal ): removes the dialog from the sim's popups.
hidePopup(st, d) ==
  Did([st EXCEPT !.sim.popups = @ \ {d},
                 !.dialogs[d].alternates = @ /\ st.dialogs[d].lastPopup = "showPopup",
                 !.dialogs[d].lastPopup = "hidePopup"], "hidePopup")

\* setAccessibleViewsVisible( visible ): every screen view and the navigation bar.
setAccessibleViewsVisible(st, visible) ==
  Did([st EXCEPT !.sim.accessibleViewsVisible = visible], "setAccessibleViewsVisible")

\* this.activeElement = this.activeElement || Display.focusedNode
storeActiveElement(st, d) ==
  [st EXCEPT !.dialogs[d].activeElement = IF @ # NoNode THEN @ ELSE st.sim.focusedNode,
             !.dialogs[d].focusAtShow = st.sim.focusedNode]

\* options.showCallback && options.showCallback()
showCallback(st, d) == IF st.dialogs[d].callbacks THEN Did(st, "showCallback") ELSE st

\* options.hideCallback && options.hideCallback()
hideCallback(st, d) == IF st.dialogs[d].callbacks THEN Did(st, "hideCallback") ELSE st

\* show() without the isShowing test.
dialogShowUnguarded(st, d) ==
  LET s1 == showPopup(st, d)
      s2 == Did([s1 EXCEPT !.dialogs[d].isShowing = TRUE], "isShowing")
      s3 == storeActiveElement(s2, d)
      s4 == setAccessibleViewsVisible(s3, FALSE)
      s5 == Did(s4, "updateLayout")
  IN  showCallback(s5, d)

\* Dialog.show (flag version)
dialogShow(st, d) ==
  IF ~st.dialogs[d].isShowing
  THEN LET s1 == showPopup(st, d)
           s2 == Did([s1 EXCEPT !.dialogs[d].isShowing = TRUE], "isShowing")
           s3 == storeActiveElement(s2, d)
           s4 == setAccessibleViewsVisible(s3, FALSE)
           s5 == Did(s4, "updateLayout")
       IN  showCallback(s5, d)
  ELSE st

\* Dialog.hide (flag version)
dialogHide(st, d) ==
  IF st.dialogs[d].isShowing
  THEN LET s1 == hidePopup(st, d)
           s2 == Did([s1 EXCEPT !.dialogs[d].isShowing = FALSE], "isShowing")
           s3 == setAccessibleViewsVisible(s2, TRUE)
       IN  hideCallback(s3, d)
  ELSE st

\* Dialog.dispose (flag version): hide(), disposeDialog(), Panel.prototype.dispose.
dialogDispose(st, d) ==
  Did([dialogHide(st, d) EXCEPT !.dialogs[d].disposed = TRUE], "disposeDialog")

\* The listener the property version links (lazily) to isShowingProperty.
isShowingListener(st, d, isShowing) ==
  IF isShowing
  THEN LET s1 == storeActiveElement(st, d)
           s2 == setAccessibleViewsVisible(s1, FALSE)
       IN  showCallback(s2, d)
  ELSE LET s1 == setAccessibleViewsVisible(st, TRUE)
       IN  hideCallback(s1, d)

\* PopupablePanel.show / hide (property version): the popup is pushed on or
\* removed from the sim and isShowingProperty is set, which notifies the
\* dialog's listener when the value changes.
popupableSetShowing(st, d, isShowing) ==
  IF st.dialogs[d].isShowing = isShowing THEN st
  ELSE LET s1 == IF isShowing THEN showPopup(st, d) ELSE hidePopup(st, d)
           s2 == Did([s1 EXCEPT !.dialogs[d].isShowing = isShowing], "isShowing")
       IN  isShowingListener(s2, d, isShowing)

\* show() / hide() of either version.
show(st, d) ==
  IF st.dialogs[d].version = "flag" THEN dialogShow(st, d) ELSE popupableSetShowing(st, d, TRUE)

hide(st, d) ==
  IF st.dialogs[d].version = "flag" THEN dialogHide(st, d) ELSE popupableSetShowing(st, d, FALSE)

\* focusActiveElement: this.activeElement && this.activeElement.focus()
focusActiveElement(st, d) ==
  IF st.dialogs[d].activeElement # NoNode
  THEN Did([st EXCEPT !.sim.focusedNode = st.dialogs[d].activeElement], "focus")
  ELSE st

\* escapeListener.keydown with KEY_ESCAPE: hide(), then focusActiveElement().
escapeListener(st, d) == focusActiveElement(hide(st, d), d)

\* The close button's listener fired by an accessibility click:
\* options.closeButtonListener() (by default hide()), then focusActiveElement().
closeButtonListener(st, d) == focusActiveElement(hide(st, d), d)

\* A dialog after its constructor.
DialogConstructed(version, callbacks, focusOnCloseNode) ==
  [version |-> version, callbacks |-> callbacks, focusOnCloseNode |-> focusOnCloseNode,
   isShowing |-> FALSE, activeElement |-> focusOnCloseNode, disposed |-> FALSE,
   lastPopup |-> "none", alternates |-> TRUE, focusAtShow |-> NoNode]

SimStarted ==
  [accessibleViewsVisible |-> TRUE, focusedNode |-> NoNode, popups |-> {},
   trace |-> <<>>, op |-> [name |-> "new", dialog |-> "d1", wasShowing |-> FALSE]]

DialogInit ==
  /\ sim = SimStarted
  /\ \E v \in [DialogIds -> {"flag", "property"}], c \in [DialogIds -> BOOLEAN],
        f \in [DialogIds -> {NoNode, "nodeC"}] :
       dialogs = [d \in DialogIds |-> DialogConstructed(v[d], c[d], f[d])]

\* Every operation starts with an empty trace.
DialogBegin == [sim |-> [sim EXCEPT !.trace = <<>>], dialogs |-> dialogs]

DialogStep(st, name, d) ==
  /\ sim' = [st.sim EXCEPT !.op = [name |-> name, dialog |-> d,
                                    wasShowing |-> dialogs[d].isShowing]]
  /\ dialogs' = st.dialogs
  /\ UNCHANGED <<stickyVars, pushVars, viewVars, widgetVars, config, toggle2, combo>>

DialogShow(d) ==
  /\ ~dialogs[d].disposed
  /\ DialogStep(show(DialogBegin, d), "show", d)

DialogHide(d) ==
  /\ ~dialogs[d].disposed
  /\ DialogStep(hide(DialogBegin, d), "hide", d)

\* dispose().  PopupablePanel.prototype.dispose is not part of Dialog.js, so a
\* dialog of the property version is disposed of only while hidden.
DialogDispose(d) ==
  /\ ~dialogs[d].disposed
  /\ dialogs[d].version = "property" => ~dialogs[d].isShowing
  /\ DialogStep(dialogDispose(DialogBegin, d), "dispose", d)

\* Escape is pressed in a showing dialog.
DialogEscape(d) ==
  /\ ~dialogs[d].disposed /\ dialogs[d].isShowing
  /\ DialogStep(escapeListener(DialogBegin, d), "escape", d)

\* The close button of a showing dialog is clicked through the accessible DOM.
DialogA11yClose(d) ==
  /\ ~dialogs[d].disposed /\ dialogs[d].isShowing
  /\ DialogStep(closeButtonListener(DialogBegin, d), "a11yClose", d)

\* The user moves keyboard focus to a node of the screen views (or away from
\* every node) while no dialog is showing.
SimFocus(node) ==
  /\ \A d \in DialogIds : ~dialogs[d].isShowing
  /\ sim.focusedNode # node
  /\ sim' = [sim EXCEPT !.focusedNode = node, !.trace = <<>>,
                        !.op = [name |-> "focus", dialog |-> "d1", wasShowing |-> FALSE]]
  /\ UNCHANGED <<dialogs, stickyVars, pushVars, viewVars, widgetVars, config, toggle2, combo>>

DialogNext ==
  \/ \E d \in DialogIds : DialogShow(d)
  \/ \E d \in DialogIds : DialogHide(d)
  \/ \E d \in DialogIds : DialogDispose(d)
  \/ \E d \in DialogIds : DialogEscape(d)
  \/ \E d \in DialogIds : DialogA11yClose(d)
  \/ \E n \in {"nodeA", "nodeB", NoNode} : SimFocus(n)

(***************************************************************************)
(* ComboBox (src/js/ComboBox.js 1-400): the visibility of its list box,    *)
(* the listeners that dismiss it, enabledProperty and displayOnlyProperty. *)
(***************************************************************************)

\* Where a pointer can go down: on the button, in the list box, or elsewhere.
ComboPlaces == {"button", "listBox", "elsewhere"}

\* The listener of listBox.visibleProperty: clickToDismissListener is on the
\* display exactly while the list box is visible.
listBoxVisibleListener(c, visible) == [c EXCEPT !.display = visible]

\* listBox.visibleProperty.value = visible
setListBoxVisible(c, visible) ==
  IF c.listBoxVisible = visible THEN c
  ELSE listBoxVisibleListener([c EXCEPT !.listBoxVisible = visible], visible)

showListBox(c) == setListBoxVisible(c, TRUE)

hideListBox(c) == setListBoxVisible(c, FALSE)

\* The listener added to the button: toggles the visibility of the list box.
comboButtonListener(c) == setListBoxVisible(c, ~c.listBoxVisible)

\* clickToDismissListener.down hiding the list box wherever the pointer is.
clickToDismissAlways(c, place) == hideListBox(c)

\* clickToDismissListener.down
clickToDismissListener(c, place) ==
  IF ~(place = "button" \/ place = "listBox") THEN hideListBox(c) ELSE c

\* dismissWithFocusListener, linked to Display.focusProperty.
dismissWithFocusListener(c, focus) ==
  IF focus # NoNode /\ focus # "listBox" THEN hideListBox(c) ELSE c

\* Display.focusProperty is set.
setFocus(c, focus) ==
  IF c.focus = focus THEN c ELSE dismissWithFocusListener([c EXCEPT !.focus = focus], focus)

\* The button's click input listener (accessible click).
comboButtonClick(c) == IF c.listBoxVisible THEN setFocus(c, "listBox") ELSE c

\* enabledObserver of the ComboBox.
comboEnabledObserver(c, enabled) ==
  [c EXCEPT !.pickable = enabled,
            !.opacity = IF enabled THEN "1.0" ELSE "disabledOpacity"]

\* The listener linked to displayOnlyProperty.
displayOnlyListener(c, displayOnly) ==
  [hideListBox(c) EXCEPT !.buttonDisplayOnly = displayOnly, !.pickable = ~displayOnly]

\* The ComboBox after its constructor: the list box is created invisible, and
\* the link() calls run dismissWithFocusListener, enabledObserver, the
\* visibleProperty listener and the displayOnlyProperty listener once.
ComboConstructed(enabled, focus) ==
  LET c0 == [listBoxVisible |-> FALSE, display |-> FALSE, focus |-> focus,
             enabled |-> enabled, displayOnly |-> FALSE, buttonDisplayOnly |-> FALSE,
             pickable |-> TRUE, opacity |-> "1.0",
             op |-> "new", arg |-> "", wasVisible |-> FALSE]
      c1 == dismissWithFocusListener(c0, focus)
      c2 == comboEnabledObserver(c1, enabled)
      c3 == listBoxVisibleListener(c2, c2.listBoxVisible)
  IN  displayOnlyListener(c3, c3.displayOnly)

ComboInit ==
  \E e \in BOOLEAN, f \in {NoNode, "elsewhere"} : combo = ComboConstructed(e, f)

ComboStep(n, op, arg) ==
  /\ combo' = [n EXCEPT !.op = op, !.arg = arg, !.wasVisible = combo.listBoxVisible]
  /\ UNCHANGED <<stickyVars, pushVars, viewVars, widgetVars, config, toggle2, dialogVars>>

\* The button fires on a pointer click, which reaches it while the ComboBox is
\* pickable.
ComboButtonFires ==
  /\ combo.pickable
  /\ ComboStep(comboButtonListener(combo), "fire", "")

\* The button is clicked through the accessible DOM: it fires, then its click
\* input listener runs.
ComboButtonA11yClick ==
  /\ combo.listBoxVisible \in BOOLEAN
  /\ ComboStep(comboButtonClick(comboButtonListener(combo)), "fire", "a11y")

\* A pointer goes down somewhere on the display.  clickToDismissListener is
\* called while it is registered on the display.
ComboPointerDown(place) ==
  /\ place \in ComboPlaces
  /\ ComboStep(IF combo.display THEN clickToDismissListener(combo, place) ELSE combo,
               "down", place)

\* The focus moves to the button, into the list box or to one of two nodes
\* outside the ComboBox, or is lost.
ComboFocus(focus) ==
  /\ focus # combo.focus
  /\ ComboStep(setFocus(combo, focus), "focus", focus)

ComboShowListBox ==
  /\ combo.listBoxVisible \in BOOLEAN
  /\ ComboStep(showListBox(combo), "showListBox", "")

ComboHideListBox ==
  /\ combo.listBoxVisible \in BOOLEAN
  /\ ComboStep(hideListBox(combo), "hideListBox", "")

\* enabledProperty.set(enabled)
ComboSetEnabled(enabled) ==
  /\ combo.enabled # enabled
  /\ ComboStep(comboEnabledObserver([combo EXCEPT !.enabled = enabled], enabled),
               "setEnabled", "")

\* displayOnlyProperty.set(displayOnly), through PhET-iO.
ComboSetDisplayOnly(displayOnly) ==
  /\ combo.displayOnly # displayOnly
  /\ ComboStep(displayOnlyListener([combo EXCEPT !.displayOnly = displayOnly], displayOnly),
               "setDisplayOnly", "")

ComboNext ==
  \/ ComboButtonFires
  \/ ComboButtonA11yClick
  \/ \E p \in ComboPlaces : ComboPointerDown(p)
  \/ \E f \in ComboPlaces \cup {"elsewhere2", NoNode} : ComboFocus(f)
  \/ ComboShowListBox
  \/ ComboHideListBox
  \/ \E b \in BOOLEAN : ComboSetEnabled(b)
  \/ \E b \in BOOLEAN : ComboSetDisplayOnly(b)

(***************************************************************************)
(* Properties                                                              *)
(***************************************************************************)

\* C1: over an enabled button, with the pointer over it for the whole cycle and
\* no outside write of valueProperty, a press-release cycle that begins at
\* valueUp ends at valueDown after exactly one toggle, made by the press; the
\* cycle that follows it begins at valueDown and ends at valueUp after exactly
\* one toggle, made by the release.
StickyCycleTogglesOnce ==
  (gesture.phase = "released" /\ gesture.clean) =>
    /\ gesture.startValue = valueUp =>
         /\ gesture.endValue = valueDown
         /\ gesture.toggles = 1 /\ gesture.atPress = 1 /\ gesture.atRelease = 0
    /\ (gesture.startValue = valueDown /\ gesture.follows) =>
         /\ gesture.endValue = valueUp
         /\ gesture.toggles = 1 /\ gesture.atPress = 0 /\ gesture.atRelease = 1

\* The second cycle of C1 has just ended: a clean cycle from valueDown that
\* followed a clean cycle from valueUp.
StickySecondCycleDone ==
  /\ gesture.phase = "released" /\ gesture.clean
  /\ gesture.startValue = valueDown /\ gesture.follows
  /\ sticky.value = valueUp

\* C2: within one downProperty cycle the value is toggled at most once, whatever
\* over and enabled do during it (valueProperty not being written from outside),
\* and the release of the cycle whose press pushed the button down does not pop
\* it back up.
StickyAtMostOneTogglePerGesture ==
  ~gesture.external =>
    /\ gesture.toggles <= 1
    /\ gesture.atPress = 1 => gesture.atRelease = 0

\* C3: without fire-on-hold, fireOnDown = false fires exactly once on each
\* release made with over and enabled true and never otherwise on a press or a
\* release; fireOnDown = true fires exactly once on each press made while
\* enabled and never on a release.
PushFiresOncePerClick ==
  (~options.fireOnHold /\ last.op = "setDown" /\ last.before.down # push.down) =>
    LET press == push.down
        b == last.before
    IN  IF options.fireOnDown
        THEN push.nFires = IF press /\ b.enabled THEN 1 ELSE 0
        ELSE push.nFires = IF ~press /\ b.over /\ b.enabled THEN 1 ELSE 0

\* A release over the enabled fire-on-up button has fired its listeners.
PushFiredOnRelease ==
  /\ ~options.fireOnHold /\ ~options.fireOnDown
  /\ last.op = "setDown" /\ last.before.down /\ ~push.down
  /\ last.before.over /\ last.before.enabled
  /\ push.nFires = 1 /\ push.calls # <<>>

\* C4: with fireOnHold, disabling a held button stops the hold timer without
\* firing, a release stops the timer, and in every state the timer runs only
\* if down and enabled are both true.
PushTimerOnlyWhileHeldAndEnabled ==
  /\ push.timer.running => (push.down /\ push.enabled)
  /\ (last.op = "setEnabled" /\ last.before.enabled /\ ~push.enabled) =>
       (push.nFires = 0 /\ ~push.timer.running)
  /\ (last.op = "setDown" /\ last.before.down /\ ~push.down) => ~push.timer.running

\* C5: the listener list never holds a duplicate; addListener of a registered
\* listener and removeListener of an unregistered one change nothing; fire()
\* calls each registered listener exactly once, in registration order.
PushListenersSetLike ==
  /\ \A i, j \in 1..Len(push.listeners) : push.listeners[i] = push.listeners[j] => i = j
  /\ (last.op = "addListener" /\ \E i \in 1..Len(last.before.listeners) :
                                    last.before.listeners[i] = last.arg)
       => push.listeners = last.before.listeners
  /\ (last.op = "removeListener" /\ \A i \in 1..Len(last.before.listeners) :
                                       last.before.listeners[i] # last.arg)
       => push.listeners = last.before.listeners
  /\ push.nFires = 1 => push.calls = last.before.listeners

\* addListener was called with a listener that is already registered, next to
\* another one.
PushAddedTwice ==
  /\ last.op = "addListener"
  /\ Len(last.before.listeners) = 2
  /\ last.before.listeners[1] = last.arg

\* fire() has called two registered listeners.
PushFiredTwoListeners ==
  /\ last.op = "fire" /\ Len(push.calls) = 2

\* C6: the interaction state is one of the five values, is IDLE after
\* construction, and is the same whenever the same (over, down, enabled) tuple
\* is reached, by whatever sequence of setOver / setDown / setEnabled.
ViewStateFunctionOfTuple ==
  /\ view.interactionState \in InteractionStates
  /\ view.op = "new" => view.interactionState = "IDLE"
  /\ (shot.taken /\ shot.over = view.over /\ shot.down = view.down
                 /\ shot.enabled = view.enabled)
       => shot.interactionState = view.interactionState

\* The tuple (over, down, enabled) = (TRUE, TRUE, TRUE) has been reached a
\* second time, after the button was disabled in between.
ViewTupleReachedAgain ==
  /\ shot.taken /\ shot.over /\ shot.down /\ shot.enabled
  /\ view.over /\ view.down /\ view.enabled
  /\ view.op = "enable"

\* C7: while enabled is false the state is DISABLED or DISABLED_PRESSED, and
\* right after enabled becomes true it is the state of the current over / down.
ViewDisabledAbsorbing ==
  /\ ~view.enabled => view.interactionState \in {"DISABLED", "DISABLED_PRESSED"}
  /\ view.op = "enable" =>
       view.interactionState = IF view.over /\ view.down THEN "PRESSED"
                               ELSE IF view.over THEN "OVER"
                               ELSE "IDLE"

\* The button was re-enabled with the pointer over it and down, over and down
\* having changed while it was disabled.
ViewReenabledPressed ==
  /\ view.op = "enable" /\ view.over /\ view.down
  /\ shot.taken /\ ~shot.enabled /\ ~shot.over /\ ~shot.down

\* C8: the paints of the background (and of the 3D overlay) depend only on the
\* current interaction state: whenever a state is shown again, fills and
\* strokes are what they were the time before.
ViewPaintFunctionOfState ==
  (shot.taken /\ shot.interactionState = view.interactionState) =>
     (shot.button = view.button /\ shot.overlay = view.overlay)

\* C9: after Slider.dispose() none of valueObserver, enabledObserver and
\* enabledRangeObserver is still registered, whether the slider created
\* enabledProperty / enabledRangeProperty or the client supplied them.
SliderDisposeUnlinksAll ==
  slider.disposed => slider.links = {}

\* C10: dispose() of each toggle button class removes the sound listener,
\* disposes the interaction-state property and disposes the toggle button model.
ButtonsDisposeReleasesAll ==
  \A c \in ButtonClasses :
    buttons[c].disposed =>
      /\ ~buttons[c].soundListener
      /\ ~buttons[c].interactionStateProperty
      /\ ~buttons[c].toggleButtonModel

\* C11: an update of a strategy with an interaction state outside the five
\* values throws 'unsupported interactionState' and changes no fill and no
\* stroke; an update with one of the five values throws nothing.
StrategyUnsupportedStateThrows ==
  (view.op = "setInteractionState" /\ shot.taken
     /\ shot.interactionState # view.interactionState) =>
    IF view.interactionState \in InteractionStates
    THEN view.error = ""
    ELSE /\ view.error = "unsupported interactionState"
         /\ view.button = shot.button
         /\ view.overlay = shot.overlay

\* A strategy showing the disabled paints was just handed SELECTED and threw.
StrategyThrewOnSelected ==
  /\ view.op = "setInteractionState" /\ view.interactionState = "SELECTED"
  /\ shot.taken /\ shot.interactionState = "DISABLED"
  /\ view.error # "" /\ view.button.fill \in {"disabledFillVertical", "disabledBaseColor"}

\* What C12 calls a malformed configuration of each widget.
Malformed(c) ==
  CASE c.widget = "RectangularButton" ->
         \/ c.options.xAlign \notin X_ALIGN_VALUES \/ c.options.yAlign \notin Y_ALIGN_VALUES
         \/ c.options.xMargin < 0 \/ c.options.yMargin < 0
    [] c.widget = "ComboBox" ->
         \/ c.options.xMargin <= 0 \/ c.options.yMargin <= 0
         \/ c.options.listPosition \notin LIST_POSITION_VALUES
         \/ c.options.align \notin ALIGN_VALUES
    [] c.widget = "Panel" -> c.options.align \notin ALIGN_VALUES
    [] c.widget = "Slider" -> c.options.orientation \notin {"horizontal", "vertical"}
    [] OTHER -> FALSE

\* C12: with assertions enabled, a constructor called with a malformed
\* configuration fails an assertion and builds no widget.
ConfigMalformedFailsFast ==
  (config.widget # "none" /\ config.assert /\ Malformed(config)) =>
    (~config.built /\ config.error # "")

\* C13, as the code has it: with toggleOnDown (the default of the experimental
\* RoundStickyToggleButton) a press on the enabled button flips buttonStateUp
\* at once and the matching release does not flip it again; without it (the
\* default of ToggleButtonModel) the press flips nothing and the release flips
\* it once if the button is enabled and the pointer is still over it.  Either
\* way nothing else flips it during the cycle.
ToggleModelFlipsPerOption ==
  (toggle2.cycle.phase # "none" /\ toggle2.cycle.enabledAtPress) =>
    /\ toggle2.cycle.atPress = IF toggle2.model.toggleOnDown THEN 1 ELSE 0
    /\ toggle2.cycle.phase = "released" =>
         /\ toggle2.cycle.atRelease =
              IF ~toggle2.model.toggleOnDown /\ toggle2.cycle.overAtRelease THEN 1 ELSE 0
         /\ toggle2.cycle.flips = toggle2.cycle.atPress + toggle2.cycle.atRelease

\* A toggle-on-down button was pressed while enabled and released: it flipped
\* at the press and is now toggled.
ToggleModelFlippedAtPress ==
  /\ toggle2.model.toggleOnDown
  /\ toggle2.cycle.phase = "released" /\ toggle2.cycle.enabledAtPress
  /\ toggle2.cycle.atPress = 1 /\ ~toggle2.model.buttonStateUp

\* C13 as stated: every press on the enabled button flips the value at the
\* down transition and the release does not, one change per cycle.
ToggleModelFlipsAtPress ==
  (toggle2.cycle.phase # "none" /\ toggle2.cycle.enabledAtPress) =>
    /\ toggle2.cycle.atPress = 1
    /\ toggle2.cycle.phase = "released" =>
         (toggle2.cycle.atRelease = 0 /\ toggle2.cycle.flips = 1)

\* How many times a step occurs in the trace of the last operation.
Times(step) == Cardinality({i \in 1..Len(sim.trace) : sim.trace[i] = step})

\* The step is the last one of the trace and comes after isShowing was written.
LastAfterIsShowing(step) ==
  /\ Times(step) = 1
  /\ sim.trace[Len(sim.trace)] = step
  /\ \E i \in 1..(Len(sim.trace) - 1) : sim.trace[i] = "isShowing"

\* C14: for a dialog of the flag version, show() while showing and hide()
\* while hidden do nothing; sim.showPopup and sim.hidePopup alternate, starting
\* with showPopup; showCallback runs once per hidden -> showing transition and
\* hideCallback once per showing -> hidden transition, each as the last step,
\* after isShowing was written; dispose() of a showing dialog hides it first.
DialogShowHideAlternate ==
  \A d \in DialogIds :
    dialogs[d].version = "flag" =>
      /\ dialogs[d].alternates
      /\ dialogs[d].isShowing <=> dialogs[d].lastPopup = "showPopup"
      /\ (sim.op.dialog = d /\ sim.op.name = "show") =>
           IF sim.op.wasShowing
           THEN sim.trace = <<>> /\ dialogs[d].isShowing
           ELSE /\ dialogs[d].isShowing /\ Times("showPopup") = 1
                /\ Times("hideCallback") = 0
                /\ IF dialogs[d].callbacks THEN LastAfterIsShowing("showCallback")
                                            ELSE Times("showCallback") = 0
      /\ (sim.op.dialog = d /\ sim.op.name = "hide") =>
           IF ~sim.op.wasShowing
           THEN sim.trace = <<>> /\ ~dialogs[d].isShowing
           ELSE /\ ~dialogs[d].isShowing /\ Times("hidePopup") = 1
                /\ Times("showCallback") = 0
                /\ IF dialogs[d].callbacks THEN LastAfterIsShowing("hideCallback")
                                            ELSE Times("hideCallback") = 0
      /\ (sim.op.dialog = d /\ sim.op.name = "dispose") =>
           /\ ~dialogs[d].isShowing /\ d \notin sim.popups
           /\ sim.trace[Len(sim.trace)] = "disposeDialog"
           /\ Times("hidePopup") = IF sim.op.wasShowing THEN 1 ELSE 0
           /\ Times("hideCallback") = IF sim.op.wasShowing /\ dialogs[d].callbacks THEN 1 ELSE 0

\* A flag-version dialog with callbacks that was shown, hidden and shown again
\* has just been disposed of while showing.
DialogDisposedWhileShowing ==
  \E d \in DialogIds :
    /\ dialogs[d].version = "flag" /\ dialogs[d].callbacks
    /\ sim.op = [name |-> "dispose", dialog |-> d, wasShowing |-> TRUE]
    /\ dialogs[d].activeElement = "nodeA" /\ sim.focusedNode = "nodeB"

\* C15: a dialog closed with Escape or by an accessibility click on its close
\* button gives focus to options.focusOnCloseNode when there is one, and
\* otherwise to the node that had focus at the show() that opened it, on every
\* open.
DialogFocusRestored ==
  \A d \in DialogIds :
    (sim.op.dialog = d /\ sim.op.name \in {"escape", "a11yClose"}) =>
      IF dialogs[d].focusOnCloseNode # NoNode
      THEN sim.focusedNode = dialogs[d].focusOnCloseNode
      ELSE dialogs[d].focusAtShow # NoNode => sim.focusedNode = dialogs[d].focusAtShow

\* C16: the screen views and the navigation bar are hidden from assistive
\* technology exactly while at least one dialog is showing.
DialogViewsHiddenWhileShowing ==
  sim.accessibleViewsVisible <=> \A d \in DialogIds : ~dialogs[d].isShowing

\* C17: the list box starts hidden; each firing of the button toggles it; a
\* pointer down outside the button and the list box hides it, a down inside
\* either leaves it as it was; focus moving to a node outside the list box
\* hides it; showListBox() / hideListBox() make it visible / hidden.
ComboListBoxVisibility ==
  /\ combo.op = "new" => ~combo.listBoxVisible
  /\ (combo.op = "fire" /\ combo.arg = "") => combo.listBoxVisible = ~combo.wasVisible
  /\ (combo.op = "down" /\ combo.arg = "elsewhere") => ~combo.listBoxVisible
  /\ (combo.op = "down" /\ combo.arg \in {"button", "listBox"}) =>
       combo.listBoxVisible = combo.wasVisible
  /\ (combo.op = "focus" /\ combo.arg \in {"button", "elsewhere", "elsewhere2"}) =>
       ~combo.listBoxVisible
  /\ (combo.op = "focus" /\ combo.arg = "listBox") => combo.listBoxVisible = combo.wasVisible
  /\ combo.display <=> combo.listBoxVisible
  /\ combo.op = "showListBox" => combo.listBoxVisible
  /\ combo.op = "hideListBox" => ~combo.listBoxVisible

\* A pointer went down in the visible list box, which stayed visible.
ComboDownInsideListBox ==
  /\ combo.op = "down" /\ combo.arg = "listBox"
  /\ combo.wasVisible /\ combo.listBoxVisible

\* C18: the ComboBox is pickable exactly when enabledProperty is true and
\* displayOnlyProperty is false, and setting displayOnlyProperty to true hides
\* the list box.
ComboPickableIffInteractive ==
  /\ combo.pickable <=> (combo.enabled /\ ~combo.displayOnly)
  /\ (combo.op = "setDisplayOnly" /\ combo.displayOnly) => ~combo.listBoxVisible

\* C19: a drag sequence that called options.startDrag has, once over, called
\* options.endDrag exactly once (also when it ended because the slider was
\* disabled during the drag), and endDrag is never called for a drag that has
\* not called startDrag.
SliderDragBalanced ==
  ~slider.disposed =>
    /\ slider.endDrag <= slider.startDrag
    /\ ~slider.dragging => slider.endDrag = slider.startDrag

\* C20: setting enabledRangeProperty to a range inside the full range clamps
\* valueProperty into it (leaving a value already inside as it is) and makes
\* valueToPosition the mapping of the enabled range onto its segment of the
\* track; a range outside the full range fails the assertion.
SliderEnabledRangeClamps ==
  (slider.op = "setEnabledRange" /\ slider.before.linked) =>
    IF slider.enabledRange.min >= SliderRange.min /\ slider.enabledRange.max <= SliderRange.max
    THEN /\ slider.error = ""
         /\ slider.value = clamp(slider.before.value, slider.enabledRange.min,
                                 slider.enabledRange.max)
         /\ slider.valueToPosition =
              [a1 |-> slider.enabledRange.min, a2 |-> slider.enabledRange.max,
               b1 |-> TrackScale * slider.enabledRange.min,
               b2 |-> TrackScale * slider.enabledRange.max]
         /\ \A v \in slider.enabledRange.min..slider.enabledRange.max :
              valueToPosition(slider, v) = TrackScale * v
    ELSE slider.error = "enabledRange is out of range"

\* The enabled range was just narrowed below the value, which was clamped
\* down to the new maximum.
SliderValueClampedDown ==
  /\ slider.op = "setEnabledRange" /\ slider.before.linked
  /\ slider.enabledRange = [min |-> 0, max |-> 1]
  /\ slider.before.value = SliderRangeMax /\ slider.value = 1

\* C21: a release (downProperty going true -> false) that finds the pointer
\* not over the sticky button makes no toggle() call, leaves valueProperty as
\* it was and leaves pressedWhileDown true; and the press-release cycle that
\* comes next, made by the pointer over the enabled button, toggles the value
\* exactly once: at the press if it begins at valueUp, at the release if it
\* begins at valueDown.
StickyReleaseOutsideArms ==
  /\ (gesture.before.down /\ ~sticky.down /\ ~gesture.before.over) =>
       /\ sticky.nToggles = 0
       /\ sticky.pressedWhileDown
       /\ gesture.op = "setDown" => sticky.value = gesture.before.value
  /\ (gesture.phase = "released" /\ gesture.clean /\ gesture.afterOut) =>
       /\ gesture.toggles = 1
       /\ gesture.startValue = valueUp =>
            gesture.atPress = 1 /\ gesture.endValue = valueDown
       /\ gesture.startValue = valueDown =>
            gesture.atRelease = 1 /\ gesture.endValue = valueUp

\* A cycle that began at valueDown, right after a release outside the button,
\* has just been ended by a release over the enabled button.
StickyPoppedUpAfterReleaseOutside ==
  /\ gesture.phase = "released" /\ gesture.clean /\ gesture.afterOut
  /\ gesture.op = "setDown" /\ gesture.before.down /\ ~sticky.down
  /\ gesture.startValue = valueDown /\ sticky.value = valueUp

\* C22: a press or release (downProperty.set by the pointer that changes
\* downProperty) changes valueProperty only if enabledProperty and overProperty
\* were both true at that transition; with the button disabled or the pointer
\* not over it, the transition makes no toggle() call and leaves valueProperty
\* unchanged.
StickyValueChangesOnlyEnabledAndOver ==
  (gesture.op = "setDown" /\ gesture.before.down # sticky.down) =>
    /\ sticky.value # gesture.before.value =>
         gesture.before.enabled /\ gesture.before.over
    /\ ~(gesture.before.enabled /\ gesture.before.over) =>
         sticky.value = gesture.before.value /\ sticky.nToggles = 0

\* A press over a disabled button that is up has just left it up.
StickyPressIgnoredWhileDisabled ==
  /\ gesture.op = "setDown" /\ ~gesture.before.down /\ sticky.down
  /\ gesture.before.over /\ ~gesture.before.enabled
  /\ gesture.before.value = valueUp /\ sticky.value = valueUp

(***************************************************************************)
(* Specifications: one per widget, the other widgets left as constructed.  *)
(***************************************************************************)

\* The widgets a run does not exercise stay as their constructors, called
\* with the default options, leave them.
Parked(widget) ==
  /\ widget # "sticky" => StickyDefault
  /\ widget # "push" => PushDefault
  /\ widget # "view" => ViewDefault
  /\ widget # "slider" => SliderDefault
  /\ widget # "buttons" => ButtonsDefault
  /\ widget # "config" => config = NotConstructed
  /\ widget # "toggleModel" =>
       toggle2 = [model |-> ToggleModelConstructed(FALSE, TRUE), cycle |-> CycleInit]
  /\ widget # "dialog" =>
       /\ sim = SimStarted
       /\ dialogs = [d \in DialogIds |-> DialogConstructed("flag", FALSE, NoNode)]
  /\ widget # "combo" => combo = ComboConstructed(TRUE, NoNode)

Init == StickyInit /\ Parked("sticky")

Next == StickyNext

Spec == Init /\ [][Next]_vars

PushSpecInit == PushInit /\ Parked("push")

PushSpec == PushSpecInit /\ [][PushNext]_vars

ViewSpecInit == ViewInit /\ Parked("view")

ViewSpec == ViewSpecInit /\ [][ViewNext]_vars

StrategySpec == ViewSpecInit /\ [][StrategyNext]_vars

SliderSpecInit == SliderInit /\ Parked("slider")

SliderSpec == SliderSpecInit /\ [][SliderNext]_vars

ButtonsSpecInit == ButtonsInit /\ Parked("buttons")

ButtonsSpec == ButtonsSpecInit /\ [][ButtonsNext]_vars

ConfigSpecInit == config = NotConstructed /\ Parked("config")

ConfigSpec == ConfigSpecInit /\ [][ConfigNext]_vars

ToggleModelSpecInit == ToggleModelInit /\ Parked("toggleModel")

ToggleModelSpec == ToggleModelSpecInit /\ [][ToggleModelNext]_vars

DialogSpecInit == DialogInit /\ Parked("dialog")

DialogSpec == DialogSpecInit /\ [][DialogNext]_vars

ComboSpecInit == ComboInit /\ Parked("combo")

ComboSpec == ComboSpecInit /\ [][ComboNext]_vars

====
